---- MODULE Spec2Model ----
(***************************************************************************)
(* Model of the recommendation service of Flyns157/API-recommendation:     *)
(*   - the sync projector  (src/Recommender/database/synchronizer.py)      *)
(*   - the vector kernel   (src/Recommender/utils/__init__.py, array_avg)  *)
(*   - the embedding builder MC_embedder                                   *)
(*                         (src/Recommender/utils/embedding.py)            *)
(* Ids are opaque strings (spec section 3), so str(doc['_id']) is the id   *)
(* itself.                                                                 *)
(***************************************************************************)
EXTENDS Integers, Sequences, FiniteSets, TLC

VARIABLES
    store,        \* the document store (MongoDB): users, roles, threads, posts, interests, keys
    order,        \* the order in which find() yields the documents of a collection
    graph,        \* the graph store (Neo4j): nodes and a bag of edges
    constraints,  \* uniqueness constraints of the graph store
    syncCall,     \* the running projector call: [fn, erase], or NoCall
    syncPc,       \* index of the next step of the running call
    syncLog,      \* steps executed by the running call, in order
    history,      \* one record per finished projector call
    kin,          \* the arguments of a composition of the vector kernel
    kout,         \* what the composition returned or raised
    emb,          \* the 'embedding' field of the documents: {date, vector} or absent
    now,          \* datetime.now(), in hours
    lock,         \* MC_embedder._db_lock: the thread holding it, or Free
    stack,        \* per thread: the frames of its running get_*_embedding calls
    processing,   \* per thread: _thread_local.processing_users
    outcome,      \* per thread: its last finished request and what it returned or raised
    nreq,         \* requests issued so far
    request,      \* the last call of a recommendation engine: [engine, fn, id, ...]
    response,     \* what that call returned or raised, and the store accesses it made
    mode,         \* RecommendationAPI.mode, a string as the sequence of its characters
    apiCall       \* the last call of the facade and what it returned or raised

syncVars == <<store, order, graph, constraints, syncCall, syncPc, syncLog, history>>

kernelVars == <<kin, kout>>

embVars == <<emb, now, lock, stack, processing, outcome, nreq>>

engineVars == <<request, response>>

apiVars == <<mode, apiCall>>

vars == <<syncVars, kernelVars, embVars, engineVars, apiVars>>

----------------------------------------------------------------------------
\* Bounds of the model

\* projector calls per behaviour
MaxRuns == 2

----------------------------------------------------------------------------
\* The document store

UserIds     == {"u1", "u2"}
RoleNames   == {"r1", "r2"}
InterestIds == {"i1"}
KeyIds      == {"k1"}
ThreadIds   == {"t1"}
PostIds     == {"p1"}

\* ids that documents may reference without a document existing for them
NoUser     == "ux"
NoRole     == "rx"
NoInterest == "ix"
NoKey      == "kx"
NoThread   == "tx"
\* a user document without the 'role' field
Missing    == "<missing>"
NoCall     == [fn |-> "none", erase |-> FALSE, before |-> [nodes |-> {}, edges |-> <<>>]]

\* the threads that call the embedder
Threads == {"w1", "w2"}
\* the lock when no thread holds it
Free       == "free"
NoInput    == [kind |-> "none"]
NoOutput   == [ok |-> FALSE, v |-> <<>>, exc |-> "pending"]
NoOutcome  == [call |-> [fn |-> "none"]]

NoRequest  == [engine |-> "none"]
NoResponse == [res |-> NoOutput, reads |-> 0]

\* the recommendation engines at rest
EngineIdle == request = NoRequest /\ response = NoResponse

\* self.mode = 'maintenance' of RecommendationAPI.__init__
Maintenance == <<"m", "a", "i", "n", "t", "e", "n", "a", "n", "c", "e">>
NoApiCall == [fn |-> "none"]
ApiIdle == mode = Maintenance /\ apiCall = NoApiCall

\* the vector kernel at rest
KernelIdle == kin = NoInput /\ kout = NoOutput

\* the embedder at rest
EmbIdle ==
    /\ emb = <<>>
    /\ now = 0
    /\ lock = Free
    /\ stack = [t \in Threads |-> <<>>]
    /\ processing = [t \in Threads |-> {}]
    /\ outcome = [t \in Threads |-> NoOutcome]
    /\ nreq = 0

Perms(S) == {s \in [1..Cardinality(S) -> S] : \A i, j \in 1..Cardinality(S) : s[i] = s[j] => i = j}

Users0 ==
    { [u1 |-> [role |-> r, follow |-> f1, blocked |-> {}, interests |-> i1],
       u2 |-> [role |-> "r2", follow |-> f2,
               blocked |-> IF f2 = {} THEN {} ELSE {"u1", "u2", NoUser},
               interests |-> {"i1"}]] :
        r \in {"r1", NoRole, Missing},
        f1 \in {{}, {"u1", "u2"}, {"u2", NoUser}},
        f2 \in {{}, {"u1"}},
        i1 \in {{}, {"i1", NoInterest}} }

Roles0 ==
    { [r1 |-> [extend |-> e], r2 |-> [extend |-> {}]] : e \in {{}, {"r2", NoRole}} }

Threads0 ==
    { [t1 |-> [id_owner |-> o, members |-> {"u2", NoUser}, admins |-> {"u1", NoUser}]] :
        o \in {"u1", NoUser} }

Posts0(threads) ==
    { [p1 |-> [id_author |-> IF valid THEN "u2" ELSE NoUser,
               id_thread |-> IF valid THEN "t1" ELSE NoThread,
               keys |-> {"k1", NoKey}, likes |-> {"u1", NoUser},
               comments |-> {"u2", NoUser}]] :
        valid \in {threads["t1"].id_owner # NoUser} }

Stores ==
    UNION { { [users |-> us, roles |-> rs, threads |-> ts, posts |-> ps,
               interests |-> InterestIds, keys |-> KeyIds] :
                us \in Users0, rs \in Roles0, ps \in Posts0(ts) } : ts \in Threads0 }

Orders ==
    { [users |-> o[1], roles |-> o[2], threads |-> <<"t1">>, posts |-> <<"p1">>,
       interests |-> <<"i1">>, keys |-> <<"k1">>] :
        o \in {q \in Perms(UserIds) \X Perms(RoleNames) : (q[1][1] = "u1") = (q[2][1] = "r1")} }

----------------------------------------------------------------------------
\* The graph store: Cypher MATCH / MERGE as the projector uses them

\* str(doc['_id']) on a string id
Str(id) == id

EmptyGraph == [nodes |-> {}, edges |-> <<>>]

Node(label, key, val) == [label |-> label, key |-> key, val |-> val]

Edge(type, a, b) == [type |-> type, src |-> a, dst |-> b]

\* MATCH (n:label {key: val})
Match(g, label, key, val) == {n \in g.nodes : n.label = label /\ n.key = key /\ n.val = val}

\* MERGE (n:label {key: val}) SET n += properties
MergeNode(g, label, key, val) ==
    IF Match(g, label, key, val) # {} THEN g
    ELSE [g EXCEPT !.nodes = @ \cup {Node(label, key, val)}]

\* MATCH (a) MATCH (b) MERGE (a)-[:type]->(b), for the rows A x B the MATCHes yield
MergeRel(g, type, A, B) ==
    LET new == {Edge(type, a, b) : a \in A, b \in B}
    IN  [g EXCEPT !.edges = [e \in DOMAIN g.edges \cup new |->
                                IF e \in DOMAIN g.edges THEN g.edges[e] ELSE 1]]

\* MERGE instead of MATCH on the referenced ids: a node for every id, in the graph or not
MergeAll(g, label, key, ids) == {Node(label, key, id) : id \in ids}

\* the nodes a list of referenced ids resolves to
MatchAll(g, label, key, ids) == UNION {Match(g, label, key, id) : id \in ids}

----------------------------------------------------------------------------
\* The sync projector (Synchronizer)

\* the result of a projection step: the graph it leaves and whether it raised
Done(g)   == [g |-> g, ok |-> TRUE]
Raised(g) == [g |-> g, ok |-> FALSE]

\* _create_constraints: one uniqueness constraint per label
ConstraintSet ==
    { <<"User", "idUser">>, <<"Post", "idPost">>, <<"Thread", "idThread">>,
      <<"Key", "idKey">>, <<"Role", "name">>, <<"Interest", "idInterest">> }

\* erase_all_data: MATCH (n) DETACH DELETE n
erase_all_data(g) == EmptyGraph

\* the body of the loop of sync_roles for one role document of the document store s
sync_role(s, g, r) ==
    LET g1 == MergeNode(g, "Role", "name", r)
    IN  MergeRel(g1, "EXTENDS", Match(g1, "Role", "name", r),
                 MatchAll(g1, "Role", "name", s.roles[r].extend))

RECURSIVE sync_roles_from(_, _, _)
sync_roles_from(s, g, i) ==
    IF i > Len(order.roles) THEN Done(g)
    ELSE sync_roles_from(s, sync_role(s, g, order.roles[i]), i + 1)

sync_roles(g) == sync_roles_from(store, g, 1)

RECURSIVE sync_interests_from(_, _)
sync_interests_from(g, i) ==
    IF i > Len(order.interests) THEN Done(g)
    ELSE sync_interests_from(
             MergeNode(g, "Interest", "idInterest", Str(order.interests[i])), i + 1)

sync_interests(g) == sync_interests_from(g, 1)

RECURSIVE sync_keys_from(_, _)
sync_keys_from(g, i) ==
    IF i > Len(order.keys) THEN Done(g)
    ELSE sync_keys_from(MergeNode(g, "Key", "idKey", Str(order.keys[i])), i + 1)

sync_keys(g) == sync_keys_from(g, 1)

\* the body of the loop of sync_users for one user document; user['role'] raises
\* KeyError, after the node was merged, when the document has no 'role' field
sync_user(s, g, u) ==
    LET d  == s.users[u]
        g1 == MergeNode(g, "User", "idUser", Str(u))
        me == Match(g1, "User", "idUser", Str(u))
        g2 == MergeRel(g1, "HAS_ROLE", me, Match(g1, "Role", "name", d.role))
        g3 == MergeRel(g2, "FOLLOWS", me, MatchAll(g2, "User", "idUser", d.follow))
        g4 == MergeRel(g3, "BLOCKS", me, MatchAll(g3, "User", "idUser", d.blocked))
        g5 == MergeRel(g4, "INTERESTED_BY", me,
                       MatchAll(g4, "Interest", "idInterest", d.interests))
    IN  IF d.role = Missing THEN Raised(g1) ELSE Done(g5)

RECURSIVE sync_users_from(_, _, _)
sync_users_from(s, g, i) ==
    IF i > Len(order.users) THEN Done(g)
    ELSE LET r == sync_user(s, g, order.users[i])
         IN  IF r.ok THEN sync_users_from(s, r.g, i + 1) ELSE r

sync_users(g) == sync_users_from(store, g, 1)

\* the body of the loop of sync_threads for one thread document
sync_thread(s, g, t) ==
    LET d  == s.threads[t]
        g1 == MergeNode(g, "Thread", "idThread", Str(t))
        me == Match(g1, "Thread", "idThread", Str(t))
        g2 == MergeRel(g1, "OWNS", Match(g1, "User", "idUser", d.id_owner), me)
        g3 == MergeRel(g2, "MEMBER_OF", MatchAll(g2, "User", "idUser", d.members), me)
    IN  MergeRel(g3, "ADMIN_OF", MatchAll(g3, "User", "idUser", d.admins), me)

RECURSIVE sync_threads_from(_, _, _)
sync_threads_from(s, g, i) ==
    IF i > Len(order.threads) THEN Done(g)
    ELSE sync_threads_from(s, sync_thread(s, g, order.threads[i]), i + 1)

sync_threads(g) == sync_threads_from(store, g, 1)

\* the property the Key nodes are matched on by sync_posts
PostKeyProperty == "idkey"

\* the body of the loop of sync_posts for one post document
sync_post(s, g, p) ==
    LET d  == s.posts[p]
        g1 == MergeNode(g, "Post", "idPost", Str(p))
        me == Match(g1, "Post", "idPost", Str(p))
        g2 == MergeRel(g1, "WRITED_BY", Match(g1, "User", "idUser", d.id_author), me)
        g3 == MergeRel(g2, "POSTED_IN", me, Match(g2, "Thread", "idThread", d.id_thread))
        g4 == MergeRel(g3, "HAS_KEY", me, MatchAll(g3, "Key", PostKeyProperty, d.keys))
        g5 == MergeRel(g4, "LIKES", MatchAll(g4, "User", "idUser", d.likes), me)
    IN  MergeRel(g5, "HAS_COMMENT", MatchAll(g5, "User", "idUser", d.comments), me)

RECURSIVE sync_posts_from(_, _, _)
sync_posts_from(s, g, i) ==
    IF i > Len(order.posts) THEN Done(g)
    ELSE sync_posts_from(s, sync_post(s, g, order.posts[i]), i + 1)

sync_posts(g) == sync_posts_from(store, g, 1)

\* sync_all with the users projected before the roles, interests and keys
sync_all_steps_users_first(erase) ==
    (IF erase THEN <<"erase_all_data">> ELSE <<>>) \o
    <<"_create_constraints", "sync_users", "sync_roles", "sync_interests", "sync_keys",
      "sync_threads", "sync_posts">>

\* the steps of sync_all(erase_data), in the order of its statements
sync_all_steps(erase) ==
    (IF erase THEN <<"erase_all_data">> ELSE <<>>) \o
    <<"_create_constraints", "sync_roles", "sync_interests", "sync_keys",
      "sync_users", "sync_threads", "sync_posts">>

\* the steps of synchronize(), in the order of its statements
synchronize_steps ==
    <<"_create_constraints", "sync_roles", "sync_interests", "sync_keys",
      "sync_users", "sync_threads", "sync_posts">>

Steps(call) == IF call.fn = "sync_all" THEN sync_all_steps(call.erase) ELSE synchronize_steps

\* what the caller of the projector observes when a step raises: sync_all catches
\* the exception of a projection step, prints [FAILED] and returns normally;
\* synchronize lets it propagate
OnStepError(call) == IF call.fn = "sync_all" THEN "returned" ELSE "raised"

----------------------------------------------------------------------------
\* The projector as a state machine: one action per step of sync_all / synchronize

InitSync ==
    /\ store \in Stores
    /\ order \in Orders
    /\ graph = EmptyGraph
    /\ constraints = {}
    /\ syncCall = NoCall
    /\ syncPc = 0
    /\ syncLog = <<>>
    /\ history = <<>>
    /\ KernelIdle
    /\ EmbIdle
    /\ EngineIdle
    /\ ApiIdle

\* the record of a finished call
Entry(log, ok, g) ==
    [fn |-> syncCall.fn, erase |-> syncCall.erase, before |-> syncCall.before,
     log |-> log, ok |-> ok,
     signal |-> IF ok THEN "returned" ELSE OnStepError(syncCall),
     graph |-> g]

\* a caller invokes sync_all(erase_data) or synchronize()
StartSync ==
    /\ syncCall = NoCall
    /\ Len(history) < MaxRuns
    /\ \E c \in { [fn |-> "sync_all", erase |-> TRUE], [fn |-> "sync_all", erase |-> FALSE],
                  [fn |-> "synchronize", erase |-> FALSE] } :
          syncCall' = [fn |-> c.fn, erase |-> c.erase, before |-> graph]
    /\ syncPc' = 1
    /\ syncLog' = <<>>
    /\ UNCHANGED <<store, order, graph, constraints, history, kernelVars, embVars, engineVars, apiVars>>

AtStep(name) ==
    /\ syncCall # NoCall
    /\ syncPc <= Len(Steps(syncCall))
    /\ Steps(syncCall)[syncPc] = name

\* the step `name` ran and left r = [g, ok]
AfterStep(name, r) ==
    /\ graph' = r.g
    /\ IF r.ok
       THEN /\ syncPc' = syncPc + 1
            /\ syncLog' = Append(syncLog, name)
            /\ UNCHANGED <<syncCall, history>>
       ELSE /\ history' = Append(history, Entry(Append(syncLog, name), FALSE, r.g))
            /\ syncCall' = NoCall
            /\ syncPc' = 0
            /\ syncLog' = <<>>

EraseAllData ==
    /\ AtStep("erase_all_data")
    /\ AfterStep("erase_all_data", Done(erase_all_data(graph)))
    /\ UNCHANGED <<store, order, constraints, kernelVars, embVars, engineVars, apiVars>>

CreateConstraints ==
    /\ AtStep("_create_constraints")
    /\ constraints' = constraints \cup ConstraintSet
    /\ AfterStep("_create_constraints", Done(graph))
    /\ UNCHANGED <<store, order, kernelVars, embVars, engineVars, apiVars>>

SyncRoles ==
    /\ AtStep("sync_roles")
    /\ AfterStep("sync_roles", sync_roles(graph))
    /\ UNCHANGED <<store, order, constraints, kernelVars, embVars, engineVars, apiVars>>

SyncInterests ==
    /\ AtStep("sync_interests")
    /\ AfterStep("sync_interests", sync_interests(graph))
    /\ UNCHANGED <<store, order, constraints, kernelVars, embVars, engineVars, apiVars>>

SyncKeys ==
    /\ AtStep("sync_keys")
    /\ AfterStep("sync_keys", sync_keys(graph))
    /\ UNCHANGED <<store, order, constraints, kernelVars, embVars, engineVars, apiVars>>

SyncUsers ==
    /\ AtStep("sync_users")
    /\ AfterStep("sync_users", sync_users(graph))
    /\ UNCHANGED <<store, order, constraints, kernelVars, embVars, engineVars, apiVars>>

SyncThreads ==
    /\ AtStep("sync_threads")
    /\ AfterStep("sync_threads", sync_threads(graph))
    /\ UNCHANGED <<store, order, constraints, kernelVars, embVars, engineVars, apiVars>>

SyncPosts ==
    /\ AtStep("sync_posts")
    /\ AfterStep("sync_posts", sync_posts(graph))
    /\ UNCHANGED <<store, order, constraints, kernelVars, embVars, engineVars, apiVars>>

\* the call returns after its last step
FinishSync ==
    /\ syncCall # NoCall
    /\ syncPc > Len(Steps(syncCall))
    /\ history' = Append(history, Entry(syncLog, TRUE, graph))
    /\ syncCall' = NoCall
    /\ syncPc' = 0
    /\ syncLog' = <<>>
    /\ UNCHANGED <<store, order, graph, constraints, kernelVars, embVars, engineVars, apiVars>>

NextSync ==
    \/ StartSync
    \/ EraseAllData
    \/ CreateConstraints
    \/ SyncRoles
    \/ SyncInterests
    \/ SyncKeys
    \/ SyncUsers
    \/ SyncThreads
    \/ SyncPosts
    \/ FinishSync

SpecSync == InitSync /\ [][NextSync]_vars

----------------------------------------------------------------------------
\* Claims about the sync projector

IsPrefix(a, b) == Len(a) <= Len(b) /\ \A i \in 1..Len(a) : a[i] = b[i]

Projections ==
    <<"sync_roles", "sync_interests", "sync_keys", "sync_users", "sync_threads", "sync_posts">>

\* the finished calls that ran every step without an exception
Successful == {i \in 1..Len(history) : history[i].ok}

\* C4 (as claimed): a projector run that follows a successful run on the unchanged
\* document store leaves the graph exactly as that run left it, with or without
\* full rebuild
C4_TwiceEqualsOnce ==
    \A i \in Successful :
        (i + 1) \in Successful => history[i + 1].graph = history[i].graph

\* the edges the schema asks for: one per reference whose two endpoints have a document
UserNode(u)     == Node("User", "idUser", u)
RoleNode(r)     == Node("Role", "name", r)
InterestNode(i) == Node("Interest", "idInterest", i)
KeyNode(k)      == Node("Key", "idKey", k)
ThreadNode(t)   == Node("Thread", "idThread", t)
PostNode(p)     == Node("Post", "idPost", p)

SchemaEdges ==
    UNION {
      {Edge("HAS_ROLE", UserNode(u), RoleNode(store.users[u].role)) :
          u \in {x \in UserIds : store.users[x].role \in RoleNames}},
      {Edge("FOLLOWS", UserNode(pr[1]), UserNode(pr[2])) :
          pr \in {q \in UserIds \X UserIds : q[2] \in store.users[q[1]].follow}},
      {Edge("BLOCKS", UserNode(pr[1]), UserNode(pr[2])) :
          pr \in {q \in UserIds \X UserIds : q[2] \in store.users[q[1]].blocked}},
      {Edge("INTERESTED_BY", UserNode(pr[1]), InterestNode(pr[2])) :
          pr \in {q \in UserIds \X InterestIds : q[2] \in store.users[q[1]].interests}},
      {Edge("EXTENDS", RoleNode(pr[1]), RoleNode(pr[2])) :
          pr \in {q \in RoleNames \X RoleNames : q[2] \in store.roles[q[1]].extend}},
      {Edge("OWNS", UserNode(pr[1]), ThreadNode(pr[2])) :
          pr \in {q \in UserIds \X ThreadIds : q[1] = store.threads[q[2]].id_owner}},
      {Edge("MEMBER_OF", UserNode(pr[1]), ThreadNode(pr[2])) :
          pr \in {q \in UserIds \X ThreadIds : q[1] \in store.threads[q[2]].members}},
      {Edge("ADMIN_OF", UserNode(pr[1]), ThreadNode(pr[2])) :
          pr \in {q \in UserIds \X ThreadIds : q[1] \in store.threads[q[2]].admins}},
      {Edge("WRITED_BY", UserNode(pr[1]), PostNode(pr[2])) :
          pr \in {q \in UserIds \X PostIds : q[1] = store.posts[q[2]].id_author}},
      {Edge("POSTED_IN", PostNode(pr[1]), ThreadNode(pr[2])) :
          pr \in {q \in PostIds \X ThreadIds : q[2] = store.posts[q[1]].id_thread}},
      {Edge("HAS_KEY", PostNode(pr[1]), KeyNode(pr[2])) :
          pr \in {q \in PostIds \X KeyIds : q[2] \in store.posts[q[1]].keys}},
      {Edge("LIKES", UserNode(pr[1]), PostNode(pr[2])) :
          pr \in {q \in UserIds \X PostIds : q[1] \in store.posts[q[2]].likes}},
      {Edge("HAS_COMMENT", UserNode(pr[1]), PostNode(pr[2])) :
          pr \in {q \in UserIds \X PostIds : q[1] \in store.posts[q[2]].comments}} }

HasOnce(g, e) == e \in DOMAIN g.edges /\ g.edges[e] = 1

\* C5 (as claimed): after one successful run on an empty graph every edge of the
\* schema whose two endpoints have a document is in the graph exactly once,
\* whatever the iteration order of the documents
C5_EveryEdgeOnce ==
    \A i \in Successful :
        history[i].before = EmptyGraph => \A e \in SchemaEdges : HasOnce(history[i].graph, e)

\* C6 (as claimed): sync_all ensures the constraints, then (full rebuild only)
\* deletes all nodes, then projects roles, interests, keys, users, threads, posts
C6_ConstraintsThenErase ==
    \A i \in Successful :
        history[i].fn = "sync_all" =>
            history[i].log = <<"_create_constraints">> \o
                             (IF history[i].erase THEN <<"erase_all_data">> ELSE <<>>) \o
                             Projections

\* the order of the statements of sync_all
EraseThenConstraints(erase) ==
    (IF erase THEN <<"erase_all_data">> ELSE <<>>) \o <<"_create_constraints">> \o Projections

\* C6 (amended): sync_all first (full rebuild only) deletes all nodes, then ensures
\* the constraints, then projects roles, interests, keys, users, threads, posts,
\* one step after the other; a run that is under way has executed a prefix of it
C6_EraseThenConstraints ==
    /\ syncCall.fn = "sync_all" => IsPrefix(syncLog, EraseThenConstraints(syncCall.erase))
    /\ \A i \in 1..Len(history) :
          history[i].fn = "sync_all" =>
              /\ IsPrefix(history[i].log, EraseThenConstraints(history[i].erase))
              /\ history[i].ok => history[i].log = EraseThenConstraints(history[i].erase)

\* a full-rebuild sync_all that ran to its end
C6_Witness ==
    \E i \in Successful : history[i].fn = "sync_all" /\ history[i].erase /\ Len(history[i].log) = 8

\* C18 (as claimed): after any projector run no FOLLOWS edge and no BLOCKS edge
\* has the same node as source and target, whatever the follow and blocked sets
\* of the user documents hold
C18_NoSelfEdge ==
    \A i \in 1..Len(history) :
        \A e \in DOMAIN history[i].graph.edges :
            e.type \in {"FOLLOWS", "BLOCKS"} => e.src # e.dst

\* the ids that are referenced without a document of the target kind
Dangling == {NoUser, NoRole, NoInterest, NoKey, NoThread}

\* a single reference that is dangling, replaced by the null reference
Null == "<null>"
OrNull(id) == IF id \in Dangling THEN Null ELSE id

\* the document store without its dangling references
Resolved(s) ==
    [s EXCEPT
       !.users = [u \in DOMAIN s.users |->
                    [s.users[u] EXCEPT !.role = OrNull(@), !.follow = @ \ Dangling,
                                       !.blocked = @ \ Dangling, !.interests = @ \ Dangling]],
       !.roles = [r \in DOMAIN s.roles |-> [s.roles[r] EXCEPT !.extend = @ \ Dangling]],
       !.threads = [t \in DOMAIN s.threads |->
                      [s.threads[t] EXCEPT !.id_owner = OrNull(@), !.members = @ \ Dangling,
                                           !.admins = @ \ Dangling]],
       !.posts = [p \in DOMAIN s.posts |->
                    [s.posts[p] EXCEPT !.id_author = OrNull(@), !.id_thread = OrNull(@),
                                       !.keys = @ \ Dangling, !.likes = @ \ Dangling,
                                       !.comments = @ \ Dangling]]]

\* one step of the projector on the document store s
RunStep(s, g, name) ==
    CASE name = "erase_all_data"      -> Done(erase_all_data(g))
      [] name = "_create_constraints" -> Done(g)
      [] name = "sync_roles"          -> sync_roles_from(s, g, 1)
      [] name = "sync_interests"      -> sync_interests(g)
      [] name = "sync_keys"           -> sync_keys(g)
      [] name = "sync_users"          -> sync_users_from(s, g, 1)
      [] name = "sync_threads"        -> sync_threads_from(s, g, 1)
      [] name = "sync_posts"          -> sync_posts_from(s, g, 1)

\* the steps from the i-th on, up to the first that raises
RECURSIVE RunSteps(_, _, _, _)
RunSteps(s, g, steps, i) ==
    IF i > Len(steps) THEN Done(g)
    ELSE LET r == RunStep(s, g, steps[i])
         IN  IF r.ok THEN RunSteps(s, r.g, steps, i + 1) ELSE r

\* C19: a reference to an id without a document creates no node and no edge and
\* does not fail the run (a run fails only on a user document without the 'role'
\* field), and everything else is projected as it is without the reference: every
\* finished run leaves the graph, and ends the way, the same run leaves and ends
\* on the document store without its dangling references
C19_DanglingSkipped ==
    /\ \A n \in graph.nodes : n.val \notin Dangling
    /\ \A e \in DOMAIN graph.edges : e.src \in graph.nodes /\ e.dst \in graph.nodes
    /\ \A i \in 1..Len(history) :
          LET h == history[i]
              r == RunSteps(Resolved(store), h.before, Steps(h), 1)
          IN  /\ h.graph = r.g
              /\ h.ok = r.ok
              /\ ~h.ok => \E u \in UserIds : store.users[u].role = Missing

\* a run that succeeded on a store with dangling references of every kind and
\* projected nodes and edges
C19_Witness ==
    \E i \in Successful :
        /\ NoUser \in store.users["u1"].follow
        /\ store.users["u1"].role = NoRole
        /\ NoInterest \in store.users["u1"].interests
        /\ store.threads["t1"].id_owner = NoUser
        /\ store.posts["p1"].id_thread = NoThread
        /\ NoKey \in store.posts["p1"].keys
        /\ Edge("FOLLOWS", UserNode("u1"), UserNode("u2")) \in DOMAIN history[i].graph.edges
        /\ PostNode("p1") \in history[i].graph.nodes

\* C20 (as claimed): when a projection step of sync_all fails no later step runs,
\* what was written so far stays in the graph, and the caller of sync_all gets the
\* failure as an error, not a normal return
C20_FailureReported ==
    \A i \in 1..Len(history) :
        (history[i].fn = "sync_all" /\ ~history[i].ok) =>
            /\ IsPrefix(history[i].log, Steps(history[i]))
            /\ \A r \in RoleNames : RoleNode(r) \in history[i].graph.nodes
            /\ history[i].signal = "raised"

----------------------------------------------------------------------------
\* The vector kernel.  Reals are exact rationals <<numerator, denominator>> in
\* lowest terms; a vector (numpy array) is a sequence of them, its shape its length.

\* dimension D of the encoder's vectors
Dim == 2

Abs(n) == IF n < 0 THEN -n ELSE n

RECURSIVE GCD(_, _)
GCD(a, b) == IF b = 0 THEN a ELSE GCD(b, a % b)

Rat(n, d) == LET g == GCD(Abs(n), d) IN <<n \div g, d \div g>>

RAdd(x, y) == Rat(x[1] * y[2] + y[1] * x[2], x[2] * y[2])

RMul(x, y) == Rat(x[1] * y[1], x[2] * y[2])

\* array * scalar
VScale(v, r) == [i \in 1..Len(v) |-> RMul(v[i], r)]

VAdd(u, v) == [i \in 1..Len(u) |-> RAdd(u[i], v[i])]

\* np.sum(matrices, axis=0) of a non-empty list of arrays of one shape
RECURSIVE VSum(_)
VSum(ms) == IF Len(ms) = 1 THEN ms[1] ELSE VAdd(ms[1], VSum(Tail(ms)))

\* the outcome of a call: a value, or the exception it raised
Val(v) == [ok |-> TRUE, v |-> v, exc |-> "none"]
Exc(e) == [ok |-> FALSE, v |-> <<>>, exc |-> e]

\* array_avg(matrices, *args): `matrices` is the first positional argument and
\* `args` the further ones; with further arguments the first one is not averaged
array_avg(matrices, args) ==
    LET ms == IF Len(args) = 0 THEN matrices ELSE args
    IN  IF Len(ms) = 0 THEN Exc("ValueError")
        ELSE IF \E i \in 1..Len(ms) : Len(ms[i]) # Len(ms[1]) THEN Exc("ValueError")
        ELSE Val(VScale(VSum(ms), Rat(1, Len(ms))))

\* a weight given in hundredths
W(h) == Rat(h, 100)

\* Utils.array_avg(<generator>) * weight: the mean of the neighbours' vectors, scaled
Term(vs, w) ==
    LET m == array_avg(vs, <<>>)
    IN  IF m.ok THEN Val(VScale(m.v, W(w))) ELSE m

\* _generate_full_user_embedding, given the vectors of the user's interests (I),
\* the encoded description (d) and the embeddings of the followed users (F)
generate_full_user_embedding(I, d, F, w) ==
    LET a == Term(I, w.interest)
        c == Term(F, w.follow)
    IN  IF ~a.ok THEN a
        ELSE IF ~c.ok THEN c
        ELSE array_avg(a.v, <<VScale(d, W(w.description)), c.v>>)

\* x / y on Python floats
Divide(x, y) == IF y = 0 THEN Exc("ZeroDivisionError") ELSE Val(Rat(x, y))

\* the cycle branch of get_user_embedding with _generate_base_user_embedding
generate_base_user_embedding(I, d, w) ==
    LET ni == Divide(w.interest, w.interest + w.description)
        nd == Divide(w.description, w.interest + w.description)
        m  == array_avg(I, <<>>)
    IN  IF ~ni.ok THEN ni
        ELSE IF ~m.ok THEN m
        ELSE array_avg(VScale(m.v, ni.v), <<VScale(d, nd.v)>>)

\* the composition of get_post_embedding: keys (K), title (t), content (c), author (a)
compose_post(K, t, c, a, w) ==
    LET k == Term(K, w.key)
    IN  IF ~k.ok THEN k
        ELSE array_avg(k.v, <<VScale(t, W(w.title)), VScale(c, W(w.content)),
                             VScale(a, W(w.author))>>)

\* the composition of get_thread_embedding: owner (o), name (n), members (M), posts (P)
compose_thread(o, n, M, P, w) ==
    LET m  == Term(M, w.member)
        ps == Term(P, w.post)
    IN  IF ~m.ok THEN m
        ELSE IF ~ps.ok THEN ps
        ELSE array_avg(VScale(o, W(w.author)), <<VScale(n, W(w.name)), m.v, ps.v>>)

----------------------------------------------------------------------------
\* The compositions as functions of their arguments: the arguments are drawn
\* from bounded sets and each action applies one composition to them

\* neighbours averaged in one term
MaxList == 2

Zeros == [i \in 1..Dim |-> Rat(0, 1)]
Ones  == [i \in 1..Dim |-> Rat(1, 1)]
Ramp  == [i \in 1..Dim |-> Rat(i, 1)]

VecVals == {Zeros, Ones, Ramp}

Lists(lo, hi) == UNION {[1..k -> VecVals] : k \in lo..hi}

\* weights in hundredths; the first of each set is the default of the signature
DefaultUserWeights == [follow |-> 40, interest |-> 40, description |-> 20]
UserWeights ==
    {DefaultUserWeights, [follow |-> 0, interest |-> 50, description |-> 50],
     [follow |-> 100, interest |-> 0, description |-> 0]}

DefaultPostWeights == [key |-> 35, title |-> 35, content |-> 20, author |-> 10]
PostWeights == {DefaultPostWeights, [key |-> 25, title |-> 25, content |-> 25, author |-> 25]}

DefaultThreadWeights == [author |-> 10, name |-> 10, member |-> 40, post |-> 40]
ThreadWeights == {DefaultThreadWeights}

KernelInputs ==
    UNION {
      {[kind |-> "user", I |-> I, d |-> d, e |-> Zeros, F |-> F, w |-> w] :
          I \in Lists(0, MaxList), d \in VecVals, F \in Lists(0, MaxList), w \in UserWeights},
      {[kind |-> "base", I |-> I, d |-> d, e |-> Zeros, F |-> <<>>, w |-> w] :
          I \in Lists(0, MaxList), d \in VecVals, w \in UserWeights},
      {[kind |-> "post", I |-> I, d |-> d, e |-> e, F |-> F, w |-> w] :
          I \in Lists(0, MaxList), d \in VecVals, e \in VecVals, F \in Lists(1, 1),
          w \in PostWeights},
      {[kind |-> "thread", I |-> I, d |-> d, e |-> e, F |-> F, w |-> w] :
          I \in Lists(0, MaxList), d \in VecVals, e \in VecVals, F \in Lists(0, MaxList),
          w \in ThreadWeights} }

InitKernel ==
    /\ kin \in KernelInputs
    /\ kout = NoOutput
    /\ store \in Stores /\ store.users["u1"].role = "r1" /\ store.users["u1"].follow = {}
    /\ store.users["u2"].follow = {} /\ store.users["u2"].blocked = {}
    /\ store.users["u1"].interests = {} /\ store.roles["r1"].extend = {}
    /\ store.threads["t1"].id_owner = "u1"
    /\ order \in Orders /\ order.users = <<"u1", "u2">> /\ order.roles = <<"r1", "r2">>
    /\ graph = EmptyGraph
    /\ constraints = {}
    /\ syncCall = NoCall
    /\ syncPc = 0
    /\ syncLog = <<>>
    /\ history = <<>>
    /\ EmbIdle
    /\ EngineIdle
    /\ ApiIdle

Apply(kind, r) ==
    /\ kin.kind = kind
    /\ kout = NoOutput
    /\ kout' = r
    /\ UNCHANGED <<kin, syncVars, embVars, engineVars, apiVars>>

\* _generate_full_user_embedding(user, follow_weight, interest_weight, description_weight)
FullUser == Apply("user", generate_full_user_embedding(kin.I, kin.d, kin.F, kin.w))

\* _generate_base_user_embedding(user, w_int / (w_int + w_desc), w_desc / (w_int + w_desc))
BaseUser == Apply("base", generate_base_user_embedding(kin.I, kin.d, kin.w))

\* the composition of get_post_embedding
ComposePost == Apply("post", compose_post(kin.I, kin.d, kin.e, kin.F[1], kin.w))

\* the composition of get_thread_embedding
ComposeThread == Apply("thread", compose_thread(kin.d, kin.e, kin.I, kin.F, kin.w))

NextKernel == FullUser \/ BaseUser \/ ComposePost \/ ComposeThread

SpecKernel == InitKernel /\ [][NextKernel]_vars

----------------------------------------------------------------------------
\* Claims about the compositions

\* the mean of a non-empty list of vectors
Mean(vs) == VScale(VSum(vs), Rat(1, Len(vs)))

\* scaled_avg of the specification: the sum of the weighted vectors, divided by
\* their number
ScaledAvg(ts) == VScale(VSum(ts), Rat(1, Len(ts)))

\* C2 (as claimed): the call made on a user already in the reentrance set returns
\* the base embedding, the composition of the interest term and the description
\* term weighted w_int/(w_int+w_desc) and w_desc/(w_int+w_desc)
C2_BaseIsInterestAndDescription ==
    (kin.kind = "base" /\ kout.ok) =>
        kout.v = ScaledAvg(<<VScale(Mean(kin.I), Rat(kin.w.interest, kin.w.interest + kin.w.description)),
                             VScale(kin.d, Rat(kin.w.description, kin.w.interest + kin.w.description))>>)

\* C10 (as claimed): a freshly computed user embedding is the sum of its three
\* weighted terms divided by 3, and a post or thread embedding the sum of its four
\* weighted terms divided by 4
C10_EveryTermCounted ==
    /\ (kin.kind = "user" /\ kout.ok) =>
          kout.v = ScaledAvg(<<VScale(Mean(kin.I), W(kin.w.interest)),
                               VScale(kin.d, W(kin.w.description)),
                               VScale(Mean(kin.F), W(kin.w.follow))>>)
    /\ (kin.kind = "post" /\ kout.ok) =>
          kout.v = ScaledAvg(<<VScale(Mean(kin.I), W(kin.w.key)),
                               VScale(kin.d, W(kin.w.title)),
                               VScale(kin.e, W(kin.w.content)),
                               VScale(kin.F[1], W(kin.w.author))>>)
    /\ (kin.kind = "thread" /\ kout.ok) =>
          kout.v = ScaledAvg(<<VScale(kin.d, W(kin.w.author)),
                               VScale(kin.e, W(kin.w.name)),
                               VScale(Mean(kin.I), W(kin.w.member)),
                               VScale(Mean(kin.F), W(kin.w.post))>>)

\* C29 (as claimed): for weights that sum to 1 the two weights of the cycle
\* fallback, interest_weight and description_weight divided by their sum, are
\* defined and sum to 1, and the fallback does not fail on them, the weights
\* (1, 0, 0) included
C29_FallbackWeightsDefined ==
    (kin.kind = "base" /\ kout # NoOutput) =>
        LET ni == Divide(kin.w.interest, kin.w.interest + kin.w.description)
            nd == Divide(kin.w.description, kin.w.interest + kin.w.description)
        IN  /\ ni.ok /\ nd.ok
            /\ RAdd(ni.v, nd.v) = Rat(1, 1)
            /\ kout.exc # "ZeroDivisionError"

----------------------------------------------------------------------------
\* The embedding builder MC_embedder: documents, stored embeddings, numpy values

\* requests per behaviour
MaxReq == 2

\* update_time_hours, the time to live of a stored embedding
update_time == 2

\* the clock runs until an hour past the time to live
MaxTime == update_time + 1

Collections == {"users", "posts", "threads", "keys", "interests"}

\* the ids of the documents of a collection; a collection the store does not
\* have is empty
Documents(coll) ==
    CASE coll = "users"     -> UserIds
      [] coll = "posts"     -> PostIds
      [] coll = "threads"   -> ThreadIds
      [] coll = "keys"      -> store.keys
      [] coll = "interests" -> store.interests
      [] OTHER              -> {}

\* a document without the 'embedding' field
Absent == [present |-> FALSE, date |-> 0, vector |-> <<>>]

Stored(date, vector) == [present |-> TRUE, date |-> date, vector |-> vector]

\* find_one({"_id": id}, {"embedding": 1}) did not find a document
NotFound == [found |-> FALSE, arr |-> Absent]

\* _get_embedding: None when the document does not exist, and otherwise
\* np.array(entity.get("embedding")), a zero-dimensional array holding the
\* embedding sub-document {date, vector}, or None when the field is absent
get_embedding(coll, id) ==
    IF id \in Documents(coll) THEN [found |-> TRUE, arr |-> emb[coll][id]] ELSE NotFound

\* bool(entity) as `if not entity` takes it: None is false, and a
\* zero-dimensional array has the truth value of its one element
Truth(entity) == entity.found /\ entity.arr.present

\* `key in entity` on a numpy array: some element equals key; the one element
\* is the sub-document, which is no string
Contains(entity, key) == FALSE

\* entity[key] on a numpy array without named fields is an IndexError
CanSubscript(entity, key) == FALSE

\* (datetime.now() - embed_date) < self.update_time
Fresh(date) == now - date < update_time

\* the branch `if "embedding" in entity` with its freshness test
Cached(entity) == Contains(entity, "embedding") /\ Fresh(entity.arr.date)

\* 1.0 in units of 1e-9, the unit of the tolerances
One == 10^9
atol == 1

\* np.isclose(a, b, rtol=1e-09, atol=1e-09): |a - b| <= atol + rtol * |b|
isclose(a, b) == Abs(a - b) <= atol + (Abs(b) \div One)

\* the sum of the weights of a call, in units of 1e-9: the weights are given in
\* hundredths and dev is what the sum has beyond them
WeightSum(fn, w, dev) ==
    dev + (10^7) * (CASE fn = "user"   -> w.follow + w.interest + w.description
                      [] fn = "post"   -> w.key + w.title + w.content + w.author
                      [] fn = "thread" -> w.author + w.name + w.member + w.post
                      [] OTHER         -> 100)

FieldNo == [description |-> 1, name |-> 2, title |-> 3, content |-> 4]

IdNo(id) == IF id \in {"u1", "i1", "k1", "t1", "p1"} THEN 1 ELSE 2

\* self.model.encode(doc[field]): a vector of dimension D fixed by the text
encode(field, id) == [i \in 1..Dim |-> Rat(10 * FieldNo[field] + IdNo(id) + i, 1)]

----------------------------------------------------------------------------
\* Frames of the get_*_embedding calls and the effect of one step of a frame

NotSeen == [at |-> -1, arr |-> Absent]

\* where a call starts: with the acquisition of the lock, or with the lookup
EntryPc(fn) == IF fn \in {"user", "post", "interest"} THEN "lock1" ELSE "check"

Frame(fn, id, w, dev) ==
    [fn |-> fn, id |-> id, w |-> w, dev |-> dev, pc |-> EntryPc(fn),
     todo |-> {}, first |-> <<>>, acc |-> <<>>, val |-> <<>>,
     tracked |-> FALSE, seen |-> NotSeen]

\* the collection a call reads and writes; get_interest_embedding names 'interest'
Coll(fn) ==
    CASE fn = "user"     -> "users"
      [] fn = "post"     -> "posts"
      [] fn = "thread"   -> "threads"
      [] fn = "key"      -> "keys"
      [] fn = "interest" -> "interest"

Goto(f)      == [op |-> "goto",   frame |-> f, callee |-> f, out |-> NoOutput, write |-> FALSE]
Call(f, c)   == [op |-> "call",   frame |-> f, callee |-> c, out |-> NoOutput, write |-> FALSE]
Return(f, v) == [op |-> "return", frame |-> f, callee |-> f, out |-> Val(v),   write |-> FALSE]
Store(f, v)  == [op |-> "return", frame |-> f, callee |-> f, out |-> Val(v),   write |-> TRUE]
\* an exception that leaves the frame running
RaiseAndStay(f, e) == Goto(f)
\* raise: the exception ends the call and propagates
Raise(f, e)  == [op |-> "raise",  frame |-> f, callee |-> f, out |-> Exc(e),   write |-> FALSE]

\* ValueError("... doesn't exist: impossible to generate an embedding")
NotExist == "ValueError: doesn't exist"
\* ValueError('The sum of ... must be 1.0')
InvalidWeights == "ValueError: the sum of the weights must be 1.0"

\* the lookup that opens every call, up to the validation of the weights; `then`
\* is the frame with which the call goes on
Lookup(f, then) ==
    LET entity == get_embedding(Coll(f.fn), f.id)
        g == [f EXCEPT !.seen = [at |-> now, arr |-> entity.arr]]
    IN  IF ~Truth(entity) THEN Raise(g, NotExist)
        ELSE IF f.fn = "interest" /\ ~CanSubscript(entity, "name") THEN Raise(g, "IndexError")
        ELSE IF Cached(entity) THEN Return(g, entity.arr.vector)
        ELSE IF ~isclose(WeightSum(f.fn, f.w, f.dev), One) THEN Raise(g, InvalidWeights)
        ELSE IF f.fn = "key" /\ ~CanSubscript(entity, "name") THEN Raise(g, "IndexError")
        ELSE Goto([g EXCEPT !.pc = then.pc, !.val = then.val])

\* `pick` is the element the running generator yields next
Loop(f, pick, callee, after) == IF pick \in f.todo THEN Call([f EXCEPT !.todo = @ \ {pick}], callee) ELSE after

Proceed(f, r, pc) == IF r.ok THEN Goto([f EXCEPT !.pc = pc, !.val = r.v]) ELSE Raise(f, r.exc)

----------------------------------------------------------------------------
\* One step of each get_*_embedding; t is the running thread, f its top frame

user_step(t, f, pick) ==
    CASE f.pc = "check" -> Lookup(f, [f EXCEPT !.pc = "lock2"])
      [] f.pc = "find" ->
            \* user = find_one(...); then _track_user_processing(id_user)
            IF f.id \in processing[t]
            THEN IF ~Divide(f.w.interest, f.w.interest + f.w.description).ok
                 THEN Raise(f, "ZeroDivisionError")
                 ELSE Goto([f EXCEPT !.pc = "base_int", !.todo = store.users[f.id].interests])
            ELSE Goto([f EXCEPT !.pc = "full_int", !.tracked = TRUE,
                                !.todo = store.users[f.id].interests])
      [] f.pc = "full_int" ->
            Loop(f, pick, Frame("interest", pick, <<>>, 0),
                 IF Term(f.acc, f.w.interest).ok
                 THEN Goto([f EXCEPT !.pc = "full_fol", !.first = f.acc, !.acc = <<>>,
                                     !.todo = store.users[f.id].follow])
                 ELSE Raise(f, Term(f.acc, f.w.interest).exc))
      [] f.pc = "full_fol" ->
            Loop(f, pick, Frame("user", pick, f.w, f.dev),
                 Proceed(f, generate_full_user_embedding(f.first, encode("description", f.id),
                                                         f.acc, f.w), "store_lock"))
      [] f.pc = "base_int" ->
            Loop(f, pick, Frame("interest", pick, <<>>, 0),
                 LET r == generate_base_user_embedding(f.acc, encode("description", f.id), f.w)
                 IN  IF r.ok THEN Return(f, r.v) ELSE Raise(f, r.exc))
      [] f.pc = "store" -> Store(f, f.val)

interest_step(f) ==
    CASE f.pc = "check" -> Lookup(f, [f EXCEPT !.pc = "store_lock", !.val = encode("name", f.id)])
      [] f.pc = "store" -> Store(f, f.val)

key_step(f) ==
    CASE f.pc = "check" -> Lookup(f, [f EXCEPT !.pc = "store_lock", !.val = encode("name", f.id)])
      [] f.pc = "store" -> Store(f, f.val)

post_step(f, pick) ==
    CASE f.pc = "check" -> Lookup(f, [f EXCEPT !.pc = "lock2"])
      [] f.pc = "find" -> Goto([f EXCEPT !.pc = "keys", !.todo = store.posts[f.id].keys])
      [] f.pc = "keys" ->
            Loop(f, pick, Frame("key", pick, <<>>, 0),
                 IF Term(f.acc, f.w.key).ok
                 THEN Goto([f EXCEPT !.pc = "author", !.first = f.acc, !.acc = <<>>,
                                     !.todo = {store.posts[f.id].id_author}])
                 ELSE Raise(f, Term(f.acc, f.w.key).exc))
      [] f.pc = "author" ->
            Loop(f, pick, Frame("user", pick, DefaultUserWeights, 0),
                 Proceed(f, compose_post(f.first, encode("title", f.id), encode("content", f.id),
                                         f.acc[1], f.w), "store_lock"))
      [] f.pc = "store" -> Store(f, f.val)

\* the posts of a thread: find({"id_thread": id_thread})
PostsOf(id) == {p \in PostIds : store.posts[p].id_thread = id}

thread_step(f, pick) ==
    CASE f.pc = "check" -> Lookup(f, [f EXCEPT !.pc = "owner"])
      [] f.pc = "owner" ->
            \* thread['id_author'], on a document whose owner is in 'id_owner'
            IF "id_author" \notin DOMAIN store.threads[f.id] THEN Raise(f, "KeyError")
            ELSE IF f.acc = <<>>
            THEN Call(f, Frame("user", store.threads[f.id]["id_author"], DefaultUserWeights, 0))
            ELSE Goto([f EXCEPT !.pc = "members", !.val = f.acc[1], !.acc = <<>>,
                                !.todo = store.threads[f.id].members])
      [] f.pc = "members" ->
            Loop(f, pick, Frame("user", pick, DefaultUserWeights, 0),
                 IF Term(f.acc, f.w.member).ok
                 THEN Goto([f EXCEPT !.pc = "posts", !.first = f.acc, !.acc = <<>>,
                                     !.todo = PostsOf(f.id)])
                 ELSE Raise(f, Term(f.acc, f.w.member).exc))
      [] f.pc = "posts" ->
            Loop(f, pick, Frame("post", pick, DefaultPostWeights, 0),
                 Proceed(f, compose_thread(f.val, encode("name", f.id), f.first, f.acc, f.w),
                         "store_lock"))
      [] f.pc = "store" -> Store(f, f.val)

Effect(t, f, pick) ==
    CASE f.fn = "user"     -> user_step(t, f, pick)
      [] f.fn = "interest" -> interest_step(f)
      [] f.fn = "key"      -> key_step(f)
      [] f.fn = "post"     -> post_step(f, pick)
      [] f.fn = "thread"   -> thread_step(f, pick)

----------------------------------------------------------------------------
\* The embedder as a state machine

Top(t) == stack[t][Len(stack[t])]

Running(t) == stack[t] # <<>>

LockPcs == {"lock1", "lock2", "store_lock"}

AfterLock(pc) ==
    CASE pc = "lock1" -> "check" [] pc = "lock2" -> "find" [] pc = "store_lock" -> "store"

\* what a generator can yield next
Picks(f) == IF f.todo = {} THEN {"-"} ELSE f.todo

\* __exit__ of `with self._db_lock` that keeps the lock
with_exit_keeps(l, t) == l

\* __exit__ of `with self._db_lock`, on return and on exception alike
with_exit(l, t) == IF l = t THEN Free ELSE l

\* a context manager that adds nothing to processing_users
Untracked(frames) == {}

\* the ids the frames of a stack added to processing_users
Tracked(frames) == {frames[i].id : i \in {j \in 1..Len(frames) : frames[j].tracked}}

ReplaceTop(frames, f) == [frames EXCEPT ![Len(frames)] = f]

Pop(frames) == SubSeq(frames, 1, Len(frames) - 1)

Finished(f, out) ==
    [call |-> [fn |-> f.fn, id |-> f.id, w |-> f.w, dev |-> f.dev], seen |-> f.seen, res |-> out]

\* update_one({'_id': id}, {'$set': {'embedding': {date, vector}}})
update_one(coll, id, e) ==
    IF id \in Documents(coll) THEN [emb EXCEPT ![coll][id] = e] ELSE emb

EmbCalls ==
    UNION {
      {Frame("user", id, DefaultUserWeights, 0) : id \in UserIds \cup {NoUser}},
      {Frame("user", "u1", [follow |-> 50, interest |-> 40, description |-> 20], 0)},
      {Frame("post", id, DefaultPostWeights, 0) : id \in PostIds},
      {Frame("thread", id, DefaultThreadWeights, 0) : id \in ThreadIds},
      {Frame("key", id, <<>>, 0) : id \in KeyIds},
      {Frame("interest", id, <<>>, 0) : id \in InterestIds} }

\* a caller invokes get_*_embedding on thread t
Request(t) ==
    /\ ~Running(t)
    /\ nreq < MaxReq
    /\ \E c \in EmbCalls : stack' = [stack EXCEPT ![t] = <<c>>]
    /\ nreq' = nreq + 1
    /\ UNCHANGED <<emb, now, lock, processing, outcome, syncVars, kernelVars, engineVars, apiVars>>

\* `with self._db_lock:` blocks until the lock is free
Acquire(t) ==
    /\ Running(t)
    /\ Top(t).pc \in LockPcs
    /\ lock = Free
    /\ lock' = t
    /\ stack' = [stack EXCEPT ![t] = ReplaceTop(@, [Top(t) EXCEPT !.pc = AfterLock(@)])]
    /\ UNCHANGED <<emb, now, processing, outcome, nreq, syncVars, kernelVars, engineVars, apiVars>>

\* the statements of the top frame up to its next acquisition, call, return or raise
Step(t) ==
    /\ Running(t)
    /\ Top(t).pc \notin LockPcs
    /\ \E pick \in Picks(Top(t)) :
         LET f   == Top(t)
             eff == Effect(t, f, pick)
             g   == eff.frame
             bottom == IF Len(stack[t]) = 1 THEN g ELSE stack[t][1]
         IN  /\ lock' = with_exit(lock, t)
             /\ emb' = IF eff.write THEN update_one(Coll(f.fn), f.id, Stored(now, eff.out.v))
                       ELSE emb
             /\ CASE eff.op = "goto" ->
                       /\ stack' = [stack EXCEPT ![t] = ReplaceTop(@, g)]
                       /\ processing' = [processing EXCEPT ![t] = @ \cup Tracked(<<g>>)]
                       /\ UNCHANGED outcome
                  [] eff.op = "call" ->
                       /\ stack' = [stack EXCEPT ![t] = Append(ReplaceTop(@, g), eff.callee)]
                       /\ UNCHANGED <<processing, outcome>>
                  [] eff.op = "return" ->
                       /\ processing' = [processing EXCEPT ![t] = @ \ Tracked(<<g>>)]
                       /\ IF Len(stack[t]) = 1
                          THEN /\ stack' = [stack EXCEPT ![t] = <<>>]
                               /\ outcome' = [outcome EXCEPT ![t] = Finished(g, eff.out)]
                          ELSE /\ stack' = [stack EXCEPT ![t] =
                                   ReplaceTop(Pop(@), [@[Len(@) - 1] EXCEPT
                                                          !.acc = Append(@, eff.out.v)])]
                               /\ UNCHANGED outcome
                  [] eff.op = "raise" ->
                       /\ stack' = [stack EXCEPT ![t] = <<>>]
                       /\ processing' = [processing EXCEPT ![t] = @ \ Tracked(stack[t])]
                       /\ outcome' = [outcome EXCEPT ![t] = Finished(bottom, eff.out)]
    /\ UNCHANGED <<now, nreq, syncVars, kernelVars, engineVars, apiVars>>

\* an hour passes
Tick ==
    /\ now < MaxTime
    /\ now' = now + 1
    /\ UNCHANGED <<emb, lock, stack, processing, outcome, nreq, syncVars, kernelVars, engineVars, apiVars>>

\* the documents the embedder reads: u2 follows u1, and u1 may follow u2
EmbStores ==
    { [users |-> [u1 |-> [role |-> "r1", follow |-> fi[1], blocked |-> {},
                          interests |-> fi[2]],
                  u2 |-> [role |-> "r2", follow |-> {"u1"}, blocked |-> {},
                          interests |-> {"i1"}]],
       roles |-> [r1 |-> [extend |-> {}], r2 |-> [extend |-> {}]],
       threads |-> [t1 |-> [id_owner |-> "u1", members |-> {"u2"}, admins |-> {"u1"}]],
       posts |-> [p1 |-> [id_author |-> "u2", id_thread |-> "t1", keys |-> IF fi[2] = {} THEN {} ELSE {"k1"},
                          likes |-> {},
                          comments |-> {}]],
       interests |-> InterestIds, keys |-> KeyIds] :
        fi \in {<<{"u2"}, {"i1"}>>, <<{"u2"}, {}>>, <<{}, {"i1"}>>} }

Entities ==
    {<<"users", "u1">>, <<"users", "u2">>, <<"posts", "p1">>, <<"threads", "t1">>,
     <<"keys", "k1">>, <<"interests", "i1">>}

\* which documents carry a stored embedding
Carriers == {{}, Entities}

\* the dates of the stored embeddings; the clock starts at update_time
StoredDates == {0, 1}

Embeddings ==
    { [coll \in Collections |->
          [id \in Documents(coll) |->
              IF <<coll, id>> \in c THEN Stored(d, Ones) ELSE Absent]] :
        c \in Carriers, d \in StoredDates }

InitEmb ==
    /\ store \in EmbStores
    /\ order = [users |-> <<"u1", "u2">>, roles |-> <<"r1", "r2">>, threads |-> <<"t1">>,
                posts |-> <<"p1">>, interests |-> <<"i1">>, keys |-> <<"k1">>]
    /\ graph = EmptyGraph
    /\ constraints = {}
    /\ syncCall = NoCall
    /\ syncPc = 0
    /\ syncLog = <<>>
    /\ history = <<>>
    /\ KernelIdle
    /\ EngineIdle
    /\ ApiIdle
    /\ emb \in Embeddings
    /\ now = update_time
    /\ lock = Free
    /\ stack = [t \in Threads |-> <<>>]
    /\ processing = [t \in Threads |-> {}]
    /\ outcome = [t \in Threads |-> NoOutcome]
    /\ nreq = 0

NextEmb ==
    \/ \E t \in Threads : Request(t)
    \/ \E t \in Threads : Acquire(t)
    \/ \E t \in Threads : Step(t)
    \/ Tick

SpecEmb == InitEmb /\ [][NextEmb]_vars

\* one thread calling the embedder; a thread that can run does run
NextCall ==
    \/ Request("w1")
    \/ Acquire("w1")
    \/ Step("w1")
    \/ Tick

SpecCall ==
    InitEmb /\ [][NextCall]_vars /\ WF_vars(Acquire("w1")) /\ WF_vars(Step("w1"))

----------------------------------------------------------------------------
\* Claims about the embedding builder

\* the finished request of thread t, if any
Ended(t) == outcome[t] # NoOutcome

\* u1 and u2 follow each other
Cyclic == "u2" \in store.users["u1"].follow /\ "u1" \in store.users["u2"].follow

UserCall(t) == Running(t) /\ stack[t][1].fn = "user"

\* C1: every call of get_user_embedding terminates, whatever the follow relation,
\* cyclic ones included: a thread that runs get_user_embedding comes to the end
\* of the call, with no frame left on its stack
C1_UserEmbeddingTerminates == UserCall("w1") ~> ~Running("w1")

\* a call of get_user_embedding on a user of a follow cycle has ended
C1_Witness ==
    /\ Cyclic
    /\ ~Running("w1")
    /\ Ended("w1") /\ outcome["w1"].call.fn = "user" /\ outcome["w1"].call.id = "u1"
    /\ outcome["w1"].seen.arr.present

\* the stored embedding a finished call saw was fresh when the call looked it up
SawFresh(o) == o.seen.arr.present /\ o.seen.at - o.seen.arr.date < update_time

\* C3 (as claimed): a get_*_embedding call on a document whose stored embedding is
\* younger than the TTL returns the stored vector unchanged
C3_FreshStoredIsReturned ==
    \A t \in Threads :
        (Ended(t) /\ SawFresh(outcome[t])) => outcome[t].res = Val(outcome[t].seen.arr.vector)

\* the collection that holds the documents of an entity kind
CollectionOf(fn) == IF fn = "interest" THEN "interests" ELSE Coll(fn)

ValidWeights(c) == Abs(WeightSum(c.fn, c.w, c.dev) - One) <= 1

\* C9 (as claimed): for every entity whose document exists and every weight tuple
\* summing to 1, computing its embedding succeeds with a vector of dimension D
C9_ExistingEntityHasEmbedding ==
    \A t \in Threads :
        (Ended(t) /\ outcome[t].call.id \in Documents(CollectionOf(outcome[t].call.fn))
                 /\ ValidWeights(outcome[t].call))
            => (outcome[t].res.ok /\ Len(outcome[t].res.v) = Dim)

\* C12 (as claimed): get_user_embedding, get_post_embedding and get_thread_embedding
\* on an existing entity with weights that do not sum to 1 within the tolerance
\* fail with the invalid-weights error, whatever embedding is stored for the
\* entity, and return no vector
C12_InvalidWeightsRejected ==
    \A t \in Threads :
        (Ended(t) /\ outcome[t].call.fn \in {"user", "post", "thread"}
                 /\ outcome[t].call.id \in Documents(CollectionOf(outcome[t].call.fn))
                 /\ ~ValidWeights(outcome[t].call))
            => outcome[t].res = Exc(InvalidWeights)

Waiting(t) == Running(t) /\ Top(t).pc \in LockPcs

\* the next step of thread t can be taken: Step(t), or Acquire(t) with the lock free
CanRun(t) == Running(t) /\ (Waiting(t) => lock = Free)

\* C7: concurrent requests, on users of one follow cycle or on the same id
\* included, do not block each other for ever: no thread waits for the lock while
\* it holds it, a thread that has left its call (by return or by exception) does
\* not hold the lock, and the holder of the lock can always run on to release it,
\* so that every running thread can take its next step or waits for a thread
\* that can
C7_LockDiscipline ==
    \A t \in Threads :
        /\ Waiting(t) => lock # t
        /\ ~Running(t) => lock # t
        /\ lock = t => CanRun(t)
        /\ Running(t) => CanRun(t) \/ (lock \in Threads \ {t} /\ CanRun(lock))

\* two requests on the users of one follow cycle contend for the lock: one holds
\* it and the other waits
C7_Witness ==
    /\ Cyclic
    /\ lock = "w1" /\ Waiting("w2")
    /\ stack["w1"][1].fn = "user" /\ stack["w2"][1].fn = "user"
    /\ {stack["w1"][1].id, stack["w2"][1].id} = {"u1", "u2"}

\* documents in which u1 names an interest or a followed user that has no document
DanglingStores ==
    { [users |-> [u1 |-> [role |-> "r1", follow |-> fi[1], blocked |-> {},
                          interests |-> fi[2]],
                  u2 |-> [role |-> "r2", follow |-> {"u1"}, blocked |-> {},
                          interests |-> {"i1"}]],
       roles |-> [r1 |-> [extend |-> {}], r2 |-> [extend |-> {}]],
       threads |-> [t1 |-> [id_owner |-> "u1", members |-> {"u2"}, admins |-> {"u1"}]],
       posts |-> [p1 |-> [id_author |-> "u2", id_thread |-> "t1", keys |-> {"k1"},
                          likes |-> {}, comments |-> {}]],
       interests |-> InterestIds, keys |-> KeyIds] :
        fi \in {<<{"u2"}, {NoInterest}>>, <<{NoUser}, {"i1"}>>, <<{NoUser}, {}>>} }

InitDangling ==
    /\ store \in DanglingStores
    /\ order = [users |-> <<"u1", "u2">>, roles |-> <<"r1", "r2">>, threads |-> <<"t1">>,
                posts |-> <<"p1">>, interests |-> <<"i1">>, keys |-> <<"k1">>]
    /\ graph = EmptyGraph
    /\ constraints = {}
    /\ syncCall = NoCall
    /\ syncPc = 0
    /\ syncLog = <<>>
    /\ history = <<>>
    /\ KernelIdle
    /\ EngineIdle
    /\ ApiIdle
    /\ emb \in Embeddings
    /\ now = update_time
    /\ lock = Free
    /\ stack = [t \in Threads |-> <<>>]
    /\ processing = [t \in Threads |-> {}]
    /\ outcome = [t \in Threads |-> NoOutcome]
    /\ nreq = 0

\* the embedder on documents with references to missing documents
SpecDangling == InitDangling /\ [][NextEmb]_vars

\* user u names an interest or a followed user without a document
HasMissingNeighbour(u) ==
    \/ store.users[u].interests \ Documents("interests") # {}
    \/ store.users[u].follow \ Documents("users") # {}

\* C21 (as claimed): get_user_embedding on an existing user, found by the lookup
\* of the call, succeeds when an interest or a followed user it names has no
\* document: the neighbour is left out, and no not-found error reaches the caller
C21_MissingNeighbourDropped ==
    \A t \in Threads :
        (/\ Ended(t) /\ outcome[t].call.fn = "user"
         /\ outcome[t].call.id \in Documents("users")
         /\ outcome[t].seen.arr.present
         /\ ValidWeights(outcome[t].call)
         /\ HasMissingNeighbour(outcome[t].call.id))
            => outcome[t].res.ok

\* the pcs of get_user_embedding inside `with self._track_user_processing(id_user)`
\* on the branch of the full computation
FullPcs == {"full_int", "full_fol", "store_lock", "store"}

\* the users with a full computation on the call stack of thread t
InFull(t) ==
    {stack[t][i].id : i \in {j \in 1..Len(stack[t]) :
                                stack[t][j].fn = "user" /\ stack[t][j].pc \in FullPcs}}

\* C27: the reentrance set of a thread holds exactly the users with a full
\* computation on the call stack of that thread; it is empty whenever no call is
\* active on the thread, also after a call that ended with an exception, so that
\* a request starts with an empty set whatever other requests did or do
C27_ReentranceSetPerCall ==
    \A t \in Threads :
        /\ processing[t] = InFull(t)
        /\ ~Running(t) => processing[t] = {}

\* a call on u1 entered its full computation and ended with an exception on one
\* thread, its set empty again, while the other thread computes with its own set
C27_Witness ==
    /\ Ended("w1") /\ ~Running("w1")
    /\ outcome["w1"].call.fn = "user" /\ outcome["w1"].seen.arr.present
    /\ ValidWeights(outcome["w1"].call) /\ ~outcome["w1"].res.ok
    /\ processing["w1"] = {}
    /\ processing["w2"] # {}

----------------------------------------------------------------------------
\* The recommendation engines (src/Recommender/core): JA_engine and MC_engine
\* query the graph store the projector fills, EM_engine the document store and
\* the embedder

UserDoc(f, i) == [role |-> "r1", follow |-> f, blocked |-> {}, interests |-> i]

PostDoc(a, k) == [id_author |-> a, id_thread |-> "t1", keys |-> k, likes |-> {}, comments |-> {}]

NoDocs == <<>>

\* scenario S1 of the specification: four users, their follows and interests
S1Store ==
    [users |-> [u1 |-> UserDoc({"u2", "u3"}, {"i1"}), u2 |-> UserDoc({"u3", "u4"}, {"i1", "i2"}),
                u3 |-> UserDoc({"u4"}, {"i3"}),       u4 |-> UserDoc({}, {"i1"})],
     roles |-> [r1 |-> [extend |-> {}]], threads |-> NoDocs, posts |-> NoDocs,
     interests |-> {"i1", "i2", "i3"}, keys |-> {}]

\* scenario S2: a reader with two interests and three tagged posts of another user
S2Store ==
    [users |-> [u1 |-> UserDoc({}, {"i1", "i2"}), u2 |-> UserDoc({}, {})],
     roles |-> [r1 |-> [extend |-> {}]],
     threads |-> [t1 |-> [id_owner |-> "u2", members |-> {"u2"}, admins |-> {}]],
     posts |-> [p1 |-> PostDoc("u2", {"i1"}), p2 |-> PostDoc("u2", {"i1", "i2"}),
                p3 |-> PostDoc("u2", {"i3"})],
     interests |-> {"i1", "i2", "i3"}, keys |-> {"i1", "i2", "i3"}]

\* a store without interests and without keys: one post, no tags
S3Store ==
    [users |-> [u1 |-> UserDoc({}, {}), u2 |-> UserDoc({"u1"}, {})],
     roles |-> [r1 |-> [extend |-> {}]],
     threads |-> [t1 |-> [id_owner |-> "u2", members |-> {"u1", "u2"}, admins |-> {}]],
     posts |-> [p1 |-> PostDoc("u2", {})],
     interests |-> {}, keys |-> {}]

Reverse(s) == [i \in 1..Len(s) |-> s[Len(s) + 1 - i]]

\* the ids of S in the order of the sequence all
RECURSIVE InOrder(_, _)
InOrder(all, S) ==
    IF all = <<>> THEN <<>>
    ELSE (IF Head(all) \in S THEN <<Head(all)>> ELSE <<>>) \o InOrder(Tail(all), S)

AllIds ==
    <<"i1", "i2", "i3", "p1", "p2", "p3", "r1", "t1", "u1", "u2", "u3", "u4">>

Dir(seq, rev) == IF rev THEN Reverse(seq) ELSE seq

\* the iteration orders of the collections of a store: ascending or descending ids
OrderOf(s, rev) ==
    [users |-> Dir(InOrder(AllIds, DOMAIN s.users), rev), roles |-> <<"r1">>,
     threads |-> InOrder(AllIds, DOMAIN s.threads),
     posts |-> Dir(InOrder(AllIds, DOMAIN s.posts), rev),
     interests |-> Dir(InOrder(AllIds, s.interests), rev),
     keys |-> Dir(InOrder(AllIds, s.keys), rev)]

\* the labels the engines match on, for the labels the projector writes
EngineLabel ==
    [User |-> "users", Interest |-> "interests", Post |-> "posts", Key |-> "keys",
     Role |-> "Role", Thread |-> "Thread"]

Relabelled(n) == [n EXCEPT !.label = EngineLabel[@]]

\* the graph g with the nodes under the labels the engines match on
Relabel(g) ==
    [nodes |-> {Relabelled(n) : n \in g.nodes},
     edges |-> [e \in {Edge(x.type, Relabelled(x.src), Relabelled(x.dst)) : x \in DOMAIN g.edges}
                  |-> 1]]

\* the graph after `runs` runs of sync_all on the document store s, each run
\* starting from the graph the run before it left
RECURSIVE Projected(_, _)
Projected(s, runs) ==
    IF runs = 0 THEN EmptyGraph
    ELSE CHOOSE g \in {RunSteps(s, before, sync_all_steps(FALSE), 1).g :
                          before \in {Projected(s, runs - 1)}} : TRUE

\* the engines are called on a graph store filled by the projector, or on the
\* same graph under the labels their queries name
InitEngine ==
    /\ store \in {S1Store, S2Store, S3Store}
    /\ order \in {OrderOf(store, rev) : rev \in BOOLEAN}
    /\ graph \in UNION { {Projected(store, runs), Relabel(Projected(store, runs))} :
                           runs \in 1..MaxRuns }
    /\ constraints = ConstraintSet
    /\ syncCall = NoCall
    /\ syncPc = 0
    /\ syncLog = <<>>
    /\ history = <<>>
    /\ KernelIdle
    /\ EmbIdle
    /\ EngineIdle
    /\ ApiIdle

\* the rows of MATCH (n:label) and of the patterns of the queries; Cypher returns a
\* property that a node does not have as null
NodesOf(g, label) == {n \in g.nodes : n.label = label}

Prop(n, key) == IF n.key = key THEN n.val ELSE Null

\* (a)-[:type]->(b:label), from a
Targets(g, a, type, label) ==
    {e.dst : e \in {x \in DOMAIN g.edges : x.type = type /\ x.src = a /\ x.dst.label = label}}

\* (a:label)-[:type]->(b), from b
Sources(g, b, type, label) ==
    {e.src : e \in {x \in DOMAIN g.edges : x.type = type /\ x.dst = b /\ x.src.label = label}}

\* MATCH (u:users) WHERE u.idUser = $id_user
UsersById(g, id) == {u \in NodesOf(g, "users") : Prop(u, "idUser") = id}

\* the rows of a scan of the nodes S, in the order the store yields them
Rows(S, key, coll) == InOrder(order[coll], {Prop(n, key) : n \in S})

\* the result of a call: what it returned or raised, and the sessions it opened
\* and the queries it ran
Reply(res, reads) == [res |-> res, reads |-> reads]

\* the check of the weights that opens the calls of JA_engine and MC_engine: the
\* weights are given in hundredths, dev is what their sum has beyond them in 1e-9
WeightsOk(c) == isclose(c.dev + (10^7) * (c.w1 + c.w2), One)

\* raised before `with self.db.neo4j_driver.session()`, inside the session
invalid_weights_in_session == Reply(Exc(InvalidWeights), 1)

\* raise ValueError('The sum of arguments ... must be 1.0'), before any session
invalid_weights == Reply(Exc(InvalidWeights), 0)

----------------------------------------------------------------------------
\* JA_engine (src/Recommender/core/ja_engine.py)

Range(s) == {s[i] : i \in DOMAIN s}

Min(a, b) == IF a < b THEN a ELSE b

\* the characters of an id: set.update(str) and set(str) iterate over a string
Spell ==
    [i1 |-> <<"i", "1">>, i2 |-> <<"i", "2">>, i3 |-> <<"i", "3">>,
     p1 |-> <<"p", "1">>, p2 |-> <<"p", "2">>, p3 |-> <<"p", "3">>,
     u1 |-> <<"u", "1">>, u2 |-> <<"u", "2">>, u3 |-> <<"u", "3">>, u4 |-> <<"u", "4">>]

Chars(id) == IF id \in DOMAIN Spell THEN Range(Spell[id]) ELSE {}

RLess(x, y) == x[1] * y[2] < y[1] * x[2]

\* sorted(scores, key=scores.get, reverse=True): descending and stable
RECURSIVE sorted_desc(_, _)
sorted_desc(keys, scores) ==
    IF keys = <<>> THEN <<>>
    ELSE LET init == sorted_desc(SubSeq(keys, 1, Len(keys) - 1), scores)
             x    == keys[Len(keys)]
             p    == Cardinality({j \in 1..Len(init) : ~RLess(scores[init[j]], scores[x])})
         IN  SubSeq(init, 1, p) \o <<x>> \o SubSeq(init, p + 1, Len(init))

\* ... SKIP skip LIMIT limit
Page(rows, skip, limit) == SubSeq(rows, skip + 1, Min(Len(rows), skip + limit))

\* (u:users)-[:FOLLOWS]->(f2:users) WHERE u.idUser = $id_user RETURN f2
ja_follows(g, id) == UNION {Targets(g, u, "FOLLOWS", "users") : u \in UsersById(g, id)}

\* (u:users)-[:INTERESTED_BY]->(i:interests) WHERE u.idUser = $id_user RETURN i.idInterest
ja_interests(g, id) ==
    {Prop(i, "idInterest") :
        i \in UNION {Targets(g, u, "INTERESTED_BY", "interests") : u \in UsersById(g, id)}}

\* len(a & b) / len(a | b) if a and b else 0, on sets of Record objects of two
\* results: the nodes of two results are equal by their ids (byValue) or never
follows_score(A, B, byValue) ==
    IF A = {} \/ B = {} \/ ~byValue THEN Rat(0, 1)
    ELSE Rat(Cardinality(A \cap B), Cardinality(A \cup B))

interests_score(A, B) ==
    IF A = {} \/ B = {} THEN Rat(0, 1) ELSE Rat(Cardinality(A \cap B), Cardinality(A \cup B))

rec_score(g, c, v, byValue) ==
    RMul(RAdd(RMul(follows_score(ja_follows(g, c.id), ja_follows(g, v), byValue), W(c.w1)),
              RMul(interests_score(ja_interests(g, c.id), ja_interests(g, v)), W(c.w2))),
         Rat(1, 2))

\* the candidates: MATCH (u:users) WHERE u.idUser <> $id_user RETURN u LIMIT 20
ja_candidates(g, id) ==
    Page(Rows({u \in NodesOf(g, "users") : Prop(u, "idUser") # id}, "idUser", "users"), 0, 20)

ja_recommend_users(g, c, byValue) ==
    IF ~WeightsOk(c) THEN invalid_weights
    ELSE LET users  == ja_candidates(g, c.id)
             scores == [v \in Range(users) |-> rec_score(g, c, v, byValue)]
         IN  Reply(Val(sorted_desc(users, scores)), 5 + 2 * Len(users))

\* MATCH (u:users),(p:posts),(k:keys) WHERE u.idUser = $id_user RETURN k.idKey:
\* every key of the store, once the user and a post exist; the set is updated
\* with the characters of each id
get_hastags(g, id) ==
    IF UsersById(g, id) = {} \/ NodesOf(g, "posts") = {} THEN {}
    ELSE UNION {Chars(Prop(k, "idKey")) : k \in NodesOf(g, "keys")}

\* MATCH (u:users),(p:posts) WHERE u.idUser <> $id_user RETURN p.idPost SKIP LIMIT:
\* one row per post and other user
RECURSIVE Times(_, _)
Times(rows, n) == IF n = 0 THEN <<>> ELSE rows \o Times(rows, n - 1)

ja_posts(g, c) ==
    Page(Times(Rows(NodesOf(g, "posts"), "idPost", "posts"),
               Cardinality({u \in NodesOf(g, "users") : Prop(u, "idUser") # c.id})),
         c.start, c.size)

\* the keys of a dict filled in the order of rows
RECURSIVE Keys(_)
Keys(rows) ==
    IF rows = <<>> THEN <<>>
    ELSE LET init == Keys(SubSeq(rows, 1, Len(rows) - 1))
         IN  IF rows[Len(rows)] \in Range(init) THEN init ELSE Append(init, rows[Len(rows)])

\* session.run(...).single()[...] on the interests of a user: None, which cannot
\* be subscripted, when there is no row, else the first row
single_interest(g, id) == InOrder(order.interests, ja_interests(g, id))

\* the score of a post for a requester without hashtags; its author is looked up
\* as the user whose idUser is the id of the post
author_score(g, c, post) ==
    IF UsersById(g, post) = {} \/ NodesOf(g, "posts") = {} \/ single_interest(g, post) = <<>>
    THEN Exc("TypeError")
    ELSE LET a == Chars(single_interest(g, c.id)[1])
             b == Chars(single_interest(g, post)[1])
         IN  IF a \cup b = {} THEN Exc("ZeroDivisionError")
             ELSE Val(Rat(Cardinality(a \cap b), Cardinality(a \cup b)))

\* the score of a post for a requester with hashtags: MATCH (p:posts),(k:keys)
\* WHERE p.idPost = $idPost RETURN k.idKey, every key of the store
hashtag_score(g, c, post) ==
    LET a == get_hastags(g, c.id)
        b == IF {p \in NodesOf(g, "posts") : Prop(p, "idPost") = post} = {} THEN {}
             ELSE UNION {Chars(Prop(k, "idKey")) : k \in NodesOf(g, "keys")}
    IN  Val(Rat(Cardinality(a \cap b), Cardinality(a \cup b)))

\* scores_tab[s] = scores_tab[-1]
Overwrite(tab, s) == [tab EXCEPT ![s] = tab[Len(tab)]]

\* scores_tab.insert(s, scores_tab[-1]); del scores_tab[-1]
Move(tab, s) == SubSeq(tab, 1, s - 1) \o <<tab[Len(tab)]>> \o SubSeq(tab, s, Len(tab) - 1)

\* the loop over range(len(scores_tab)); flips[s] is random.random() >= 0.8
RECURSIVE Shuffle(_, _, _)
Shuffle(tab, flips, s) ==
    IF s > Len(tab) THEN tab
    ELSE Shuffle(IF flips[s] THEN Move(tab, s) ELSE tab, flips, s + 1)

ja_recommend_posts(g, c, flips) ==
    LET posts  == Keys(ja_posts(g, c))
        tagged == get_hastags(g, c.id) # {}
        score  == [p \in Range(posts) |->
                     IF tagged THEN hashtag_score(g, c, p) ELSE author_score(g, c, p)]
        failed == {i \in 1..Len(posts) : ~score[posts[i]].ok}
        first  == CHOOSE i \in failed : \A j \in failed : i <= j
    IN  IF ~tagged /\ single_interest(g, c.id) = <<>> THEN Reply(Exc("TypeError"), 5)
        ELSE IF failed # {} THEN Reply(score[posts[first]], 5 + 2 * first)
        ELSE Reply(Val(Shuffle(sorted_desc(posts, [p \in Range(posts) |-> score[p].v]), flips, 1)),
                   4 + 2 * Len(posts))

----------------------------------------------------------------------------
\* MC_engine (src/Recommender/core/mc_engine.py).  A variable that is not passed
\* through WITH is a new variable in the MATCH that follows it, and the
\* relationships of one pattern are pairwise different.

\* (u:users {idUser})-[:INTERESTED_BY]->(i:interests)<-[:INTERESTED_BY]-(u2:users)
common_interests(g, id, u2) ==
    Cardinality({p \in UsersById(g, id) \X NodesOf(g, "interests") :
                    /\ p[2] \in Targets(g, p[1], "INTERESTED_BY", "interests")
                    /\ u2 \in Sources(g, p[2], "INTERESTED_BY", "users")
                    /\ u2 # p[1]})

\* (u)-[:FOLLOWS]->(f:users)<-[:FOLLOWS]-(u2), u being any node
common_follows(g, u2) ==
    Cardinality({p \in g.nodes \X NodesOf(g, "users") :
                    /\ p[1] # u2
                    /\ p[2] \in Targets(g, p[1], "FOLLOWS", "users")
                    /\ p[2] \in Targets(g, u2, "FOLLOWS", "users")})

\* scores.values(): one [user_id, score] list per row, ORDER BY score DESC LIMIT
mc_recommend_users(g, c) ==
    IF ~WeightsOk(c) THEN invalid_weights
    ELSE LET found  == {u2 \in NodesOf(g, "users") :
                           /\ Prop(u2, "idUser") # c.id
                           /\ common_interests(g, c.id, u2) > 0
                           /\ common_follows(g, u2) > 0}
             score  == [v \in {Prop(u2, "idUser") : u2 \in found} |->
                          LET u2 == CHOOSE n \in found : Prop(n, "idUser") = v
                          IN  Rat(c.w1 * common_follows(g, u2)
                                  + c.w2 * common_interests(g, c.id, u2), 100)]
             ranked == Page(sorted_desc(Rows(found, "idUser", "users"), score), 0, c.limit)
         IN  Reply(Val([i \in 1..Len(ranked) |-> <<ranked[i], score[ranked[i]]>>]), 2)

\* (u:users {idUser})-[:INTERESTED_BY]->(i:interests)<-[:HAS_KEY]-(p:Post)
mc_posts(g, id) ==
    {p \in NodesOf(g, "Post") :
        \E u \in UsersById(g, id) : \E i \in Targets(g, u, "INTERESTED_BY", "interests") :
            p \in Sources(g, i, "HAS_KEY", "Post")}

\* [record.value()[0] for record in scores] on the rows p.id_post, score: the
\* first character of the id, and TypeError on the null of a node without the
\* property
first_chars(g, found, key, coll, limit) ==
    IF \E n \in found : Prop(n, key) = Null THEN Exc("TypeError")
    ELSE LET ids == Page(Rows(found, key, coll), 0, limit)
         IN  Val([i \in 1..Len(ids) |-> Spell[ids[i]][1]])

mc_recommend_posts(g, c) ==
    IF ~WeightsOk(c) THEN invalid_weights
    ELSE Reply(first_chars(g, mc_posts(g, c.id), "id_post", "posts", c.limit), 2)

\* (u:users {idUser})-[:MEMBER_OF]->(t:Thread)<-[:MEMBER_OF]-(u2:users), then
\* (u)-[:INTERESTED_BY]->(i:interests)<-[:HAS_KEY]-(t)
mc_threads(g, id) ==
    {t \in NodesOf(g, "Thread") :
        /\ \E u \in UsersById(g, id) :
              /\ t \in Targets(g, u, "MEMBER_OF", "Thread")
              /\ Sources(g, t, "MEMBER_OF", "users") \ {u} # {}
        /\ \E i \in NodesOf(g, "interests") :
              /\ t \in Sources(g, i, "HAS_KEY", "Thread")
              /\ \E x \in g.nodes : i \in Targets(g, x, "INTERESTED_BY", "interests")}

mc_recommend_threads(g, c) ==
    IF ~WeightsOk(c) THEN invalid_weights
    ELSE Reply(first_chars(g, mc_threads(g, c.id), "id_thread", "threads", c.limit), 2)

----------------------------------------------------------------------------
\* EM_engine (src/Recommender/core/em_engine.py)

\* the value of a call that returns nothing; an embedding has Dim > 0 entries
None == <<>>

\* _get_embedding with `return self.embedder.encode(entity_type, entity_id)`
em_get_embedding_returned(type, id) == encode("name", id)

\* _get_embedding: calls self.embedder.encode(entity_type, entity_id) and ends
\* without a return statement
em_get_embedding(type, id) == None

\* the documents a recommend_* call ranks; of the threads, those with a stored
\* embedding (`if "embedding" in thread`)
em_candidates(fn, id) ==
    CASE fn = "users"   -> DOMAIN store.users \ {id}
      [] fn = "posts"   -> DOMAIN store.posts
      [] fn = "threads" -> {t \in DOMAIN store.threads : emb # <<>> /\ emb["threads"][t].present}

\* recommend_users / recommend_posts / recommend_threads: the empty list when the
\* embedding of the user is None; else the find(), np.vstack, which raises
\* ValueError on an empty list, and cosine_similarity on a list, a TypeError
em_recommend(fn, c) ==
    IF em_get_embedding(IF fn = "users" THEN "users" ELSE "user", c.id) = None
    THEN Reply(Val(<<>>), 0)
    ELSE IF em_candidates(fn, c.id) = {} THEN Reply(Exc("ValueError"), 1)
    ELSE Reply(Exc("TypeError"), 1)

----------------------------------------------------------------------------
\* The engines as a state machine: one action per method.  A call is served in
\* one step and leaves the stores as they are, so that one call per behaviour
\* shows what every call does.

\* the largest page of a call
MaxPage == 3

\* the largest deviation of a sum of weights from its hundredths, in 1e-9
MaxDev == 3

\* the weights of a call; a call whose sum deviates from its hundredths has the
\* second weight 0, so that its ranking is the ranking by the hundredths; the
\* weights (1.5, -0.5) sum to 1
EngineWeights ==
    { [w1 |-> 50, w2 |-> 50, dev |-> 0], [w1 |-> 40, w2 |-> 60, dev |-> 0],
      [w1 |-> 70, w2 |-> 50, dev |-> 0], [w1 |-> 0, w2 |-> 100, dev |-> 0],
      [w1 |-> 150, w2 |-> -50, dev |-> 0] }
    \cup { [w1 |-> 100, w2 |-> 0, dev |-> d] : d \in 0..MaxDev }

Requesters == {"u1", "u2", NoUser}

Limits == {1, MaxPage}

EngineCall(engine, fn, id, args) ==
    [engine |-> engine, fn |-> fn, id |-> id] @@ args

JARecommendUsers ==
    /\ request = NoRequest
    /\ \E id \in Requesters, w \in EngineWeights, byValue \in BOOLEAN :
          LET c == EngineCall("JA", "users", id, w)
          IN  request' = c /\ response' = ja_recommend_users(graph, c, byValue)
    /\ UNCHANGED <<syncVars, kernelVars, embVars, apiVars>>

JARecommendPosts ==
    /\ request = NoRequest
    /\ \E id \in Requesters, start \in {0, 1}, flips \in [1..MaxPage -> BOOLEAN] :
          LET c == EngineCall("JA", "posts", id, [start |-> start, size |-> MaxPage - start])
          IN  request' = c /\ response' = ja_recommend_posts(graph, c, flips)
    /\ UNCHANGED <<syncVars, kernelVars, embVars, apiVars>>

MCRecommendUsers ==
    /\ request = NoRequest
    /\ \E id \in Requesters, w \in EngineWeights, limit \in Limits :
          LET c == EngineCall("MC", "users", id, w @@ [limit |-> limit])
          IN  request' = c /\ response' = mc_recommend_users(graph, c)
    /\ UNCHANGED <<syncVars, kernelVars, embVars, apiVars>>

MCRecommendPosts ==
    /\ request = NoRequest
    /\ \E id \in Requesters, w \in EngineWeights, limit \in Limits :
          LET c == EngineCall("MC", "posts", id, w @@ [limit |-> limit])
          IN  request' = c /\ response' = mc_recommend_posts(graph, c)
    /\ UNCHANGED <<syncVars, kernelVars, embVars, apiVars>>

MCRecommendThreads ==
    /\ request = NoRequest
    /\ \E id \in Requesters, w \in EngineWeights, limit \in Limits :
          LET c == EngineCall("MC", "threads", id, w @@ [limit |-> limit])
          IN  request' = c /\ response' = mc_recommend_threads(graph, c)
    /\ UNCHANGED <<syncVars, kernelVars, embVars, apiVars>>

EMRecommendUsers ==
    /\ request = NoRequest
    /\ \E id \in Requesters, limit \in Limits :
          LET c == EngineCall("EM", "users", id, [limit |-> limit])
          IN  request' = c /\ response' = em_recommend("users", c)
    /\ UNCHANGED <<syncVars, kernelVars, embVars, apiVars>>

EMRecommendPosts ==
    /\ request = NoRequest
    /\ \E id \in Requesters, limit \in Limits :
          LET c == EngineCall("EM", "posts", id, [limit |-> limit])
          IN  request' = c /\ response' = em_recommend("posts", c)
    /\ UNCHANGED <<syncVars, kernelVars, embVars, apiVars>>

EMRecommendThreads ==
    /\ request = NoRequest
    /\ \E id \in Requesters, limit \in Limits :
          LET c == EngineCall("EM", "threads", id, [limit |-> limit])
          IN  request' = c /\ response' = em_recommend("threads", c)
    /\ UNCHANGED <<syncVars, kernelVars, embVars, apiVars>>

NextEngine ==
    \/ JARecommendUsers
    \/ JARecommendPosts
    \/ MCRecommendUsers
    \/ MCRecommendPosts
    \/ MCRecommendThreads
    \/ EMRecommendUsers
    \/ EMRecommendPosts
    \/ EMRecommendThreads

SpecEngine == InitEngine /\ [][NextEngine]_vars

----------------------------------------------------------------------------
\* Claims about the recommendation engines

\* a call that carries weights was served
Weighted == request # NoRequest /\ "dev" \in DOMAIN request

\* how far the weights of the call are from summing to 1, in 1e-9
Deviation == Abs(request.dev + (10^7) * (request.w1 + request.w2) - One)

Rejected == response.res = Exc(InvalidWeights) /\ response.reads = 0

Tolerance == atol + (One \div One)

Jaccard(A, B) ==
    IF A \cup B = {} THEN Rat(0, 1) ELSE Rat(Cardinality(A \cap B), Cardinality(A \cup B))

SortedBy(ids, score) ==
    \A i, j \in 1..Len(ids) : i < j => ~RLess(score[ids[i]], score[ids[j]])

NoRepeat(ids) == \A i, j \in 1..Len(ids) : ids[i] = ids[j] => i = j

\* the score of candidate v for requester u on the documents
JaccardScore(u, v, w1, w2) ==
    RMul(RAdd(RMul(W(w1), Jaccard(store.users[u].follow, store.users[v].follow)),
              RMul(W(w2), Jaccard(store.users[u].interests, store.users[v].interests))),
         Rat(1, 2))

\* C13 (as claimed): JA_engine.recommend_users returns the other users in
\* descending order of (w_f * J(F(u),F(v)) + w_i * J(I(u),I(v))) / 2, and on the
\* scenario S1 with requester u1 and weights (0.5, 0.5) the list [u4, u2, u3]
C13_JaccardRanking ==
    (/\ Weighted /\ request.engine = "JA" /\ Deviation = 0
     /\ request.id \in DOMAIN store.users)
        => /\ response.res.ok
           /\ NoRepeat(response.res.v)
           /\ Range(response.res.v) = DOMAIN store.users \ {request.id}
           /\ SortedBy(response.res.v,
                       [v \in DOMAIN store.users |->
                          JaccardScore(request.id, v, request.w1, request.w2)])
           /\ (store = S1Store /\ request.id = "u1" /\ request.w1 = 50)
                  => response.res.v = <<"u4", "u2", "u3">>

\* the number of interests of the requester among the tags of a post
TagScore(u, p) == Rat(Cardinality(store.users[u].interests \cap store.posts[p].keys), 1)

\* C14 (as claimed): MC_engine.recommend_posts with the weights (1, 0) returns
\* the posts ranked by the shared interests alone, posts that share none
\* included; on the scenario S2 with requester u1 and limit 3, [p2, p1, p3]
C14_SingleWeightRanking ==
    (/\ Weighted /\ request.engine = "MC" /\ request.fn = "posts"
     /\ request.w1 = 100 /\ Deviation = 0 /\ request.id \in DOMAIN store.users)
        => /\ response.res.ok
           /\ NoRepeat(response.res.v)
           /\ Range(response.res.v) \subseteq DOMAIN store.posts
           /\ Len(response.res.v) = Min(request.limit, Cardinality(DOMAIN store.posts))
           /\ SortedBy(response.res.v, [p \in DOMAIN store.posts |-> TagScore(request.id, p)])
           /\ (store = S2Store /\ request.id = "u1" /\ request.limit = 3)
                  => response.res.v = <<"p2", "p1", "p3">>

Ranked(fn, id) ==
    CASE fn = "users"   -> DOMAIN store.users \ {id}
      [] fn = "posts"   -> DOMAIN store.posts
      [] fn = "threads" -> DOMAIN store.threads

\* C16 (as claimed): for an existing requester a call of EM_engine with limit k
\* returns min(k, number of candidates) ids
C16_TopK ==
    (request.engine = "EM" /\ request.id \in DOMAIN store.users)
        => /\ response.res.ok
           /\ Len(response.res.v) =
                  Min(request.limit, Cardinality(Ranked(request.fn, request.id)))

\* the tags of the posts a user wrote
TagsOf(u) == UNION {store.posts[p].keys : p \in {q \in DOMAIN store.posts : store.posts[q].id_author = u}}

\* the score of post p for requester u, by tags or else by interests
PostScore(u, p) ==
    IF TagsOf(u) # {} THEN Jaccard(TagsOf(u), store.posts[p].keys)
    ELSE Jaccard(store.users[u].interests, store.users[store.posts[p].id_author].interests)

\* C17 (as claimed): JA_engine.recommend_posts returns, without failing, posts
\* ranked by J(tags(u), tags(p)), or by J(interests(u), interests(author(p)))
\* for a requester without tags, J being 0 on an empty union
C17_PostRanking ==
    (request.engine = "JA" /\ request.fn = "posts" /\ request.id \in DOMAIN store.users)
        => /\ response.res.ok
           /\ Range(response.res.v) \subseteq DOMAIN store.posts
           /\ SortedBy(response.res.v, [p \in DOMAIN store.posts |-> PostScore(request.id, p)])

\* C23 (as claimed): a call whose weights contain a negative weight fails with
\* the invalid-weights error, also when the weights sum to 1, and returns no
\* ranking
C23_NegativeWeightRejected ==
    (Weighted /\ (request.w1 < 0 \/ request.w2 < 0))
        => response.res = Exc(InvalidWeights)

\* the place of an id in the ascending order of the ids
Rank(id) == CHOOSE i \in 1..Len(AllIds) : AllIds[i] = id

ProjectorWritten == \A n \in graph.nodes : n.label \in DOMAIN EngineLabel

\* some other user has an interest and a followed user in common with u
SharesBoth(u) ==
    \E v \in DOMAIN store.users \ {u} :
        /\ store.users[u].interests \cap store.users[v].interests # {}
        /\ store.users[u].follow \cap store.users[v].follow # {}

\* C25 (as claimed): the engines match the labels the projector writes, so that
\* on a graph a run of the projector produced MC_engine.recommend_users returns a
\* non-empty list to a requester who has an interest and a followed user in
\* common with another user
C25_EnginesMatchProjectedLabels ==
    (/\ Weighted /\ request.engine = "MC" /\ request.fn = "users" /\ Deviation = 0
     /\ ProjectorWritten
     /\ request.id \in DOMAIN store.users /\ SharesBoth(request.id))
        => response.res.ok /\ response.res.v # <<>>

\* C30: whatever the random draws, the list JA_engine.recommend_posts returns
\* after its shuffle pass has every candidate post id exactly once: as many
\* entries as there are candidates, and every candidate among them
C30_ShuffleIsPermutation ==
    (request.engine = "JA" /\ request.fn = "posts" /\ response.res.ok)
        => LET candidates == Range(ja_posts(graph, request))
           IN  /\ Len(response.res.v) = Cardinality(candidates)
               /\ Range(response.res.v) = candidates

\* a call that ranked three posts returned them in another order than the call
\* without a draw of 0.8 or more does
C30_Witness ==
    /\ request.engine = "JA" /\ request.fn = "posts" /\ response.res.ok
    /\ Len(response.res.v) = 3
    /\ response.res.v # ja_recommend_posts(graph, request, [s \in 1..MaxPage |-> FALSE]).res.v

----------------------------------------------------------------------------
\* The facade RecommendationAPI (src/Recommender/__init__.py): run and /health.
\* A string is the sequence of its characters.

Deploy  == <<"d", "e", "p", "l", "o", "y">>
Debug   == <<"d", "e", "b", "u", "g">>
Healthy == <<"h", "e", "a", "l", "t", "h", "y">>

ALL_MODE == <<Deploy, Debug, Maintenance>>

\* a in b on strings: a is a substring of b
In(a, b) == \E i \in 0..(Len(b) - Len(a)) : SubSeq(b, i + 1, i + Len(a)) = a

\* sum(mode in m for m in ALL_MODE)
Matches(m) == Cardinality({i \in 1..Len(ALL_MODE) : In(m, ALL_MODE[i])})

\* the beginnings of a string, the empty one and the string itself included
Prefixes(s) == {SubSeq(s, 1, k) : k \in 0..Len(s)}

\* the values run is called with: the three modes, their beginnings, and two
\* strings that occur in none of them
ModeArgs ==
    UNION {Prefixes(ALL_MODE[i]) : i \in 1..Len(ALL_MODE)}
        \cup {<<"D", "E", "B", "U", "G">>, <<"p", "r", "o", "d">>}

\* the documents the facade is started on
InitApi ==
    /\ store = S3Store
    /\ order = OrderOf(S3Store, FALSE)
    /\ graph = EmptyGraph
    /\ constraints = {}
    /\ syncCall = NoCall
    /\ syncPc = 0
    /\ syncLog = <<>>
    /\ history = <<>>
    /\ KernelIdle
    /\ EmbIdle
    /\ EngineIdle
    /\ ApiIdle

\* run(mode=m, sync=sync): ValueError unless m occurs in exactly one of ALL_MODE;
\* else self.mode = m, then sync_all(erase_data=True) if sync, whose outcome is
\* not looked at, then the server runs
Run ==
    \E m \in ModeArgs, sync \in BOOLEAN :
        IF Matches(m) # 1
        THEN /\ apiCall' = [fn |-> "run", mode |-> m, sync |-> sync, res |-> Exc("ValueError")]
             /\ UNCHANGED <<mode, syncVars, kernelVars, embVars, engineVars>>
        ELSE /\ mode' = m
             /\ apiCall' = [fn |-> "run", mode |-> m, sync |-> sync, res |-> Val(<<>>)]
             /\ graph' = IF sync THEN RunSteps(store, graph, sync_all_steps(TRUE), 1).g ELSE graph
             /\ constraints' = IF sync THEN constraints \cup ConstraintSet ELSE constraints
             /\ UNCHANGED <<store, order, syncCall, syncPc, syncLog, history,
                            kernelVars, embVars, engineVars>>

\* GET /health: {'status': self.mode if self.mode != 'deploy' else 'healthy'}
HealthCheck ==
    /\ apiCall' = [fn |-> "health", res |-> Val(IF mode # Deploy THEN mode ELSE Healthy)]
    /\ UNCHANGED <<mode, syncVars, kernelVars, embVars, engineVars>>

NextApi == Run \/ HealthCheck

SpecApi == InitApi /\ [][NextApi]_vars

----------------------------------------------------------------------------
\* Claims about the facade

\* C26 (as claimed): whatever strings run was called with, /health reports
\* 'healthy', 'maintenance' or 'debug': the mode is one of 'deploy', 'debug' and
\* 'maintenance', and run fails for every string that is none of the three
C26_HealthStatus ==
    /\ mode \in {Deploy, Debug, Maintenance}
    /\ apiCall.fn = "health" => apiCall.res.v \in {Healthy, Maintenance, Debug}
    /\ (apiCall.fn = "run" /\ apiCall.mode \notin {Deploy, Debug, Maintenance})
           => ~apiCall.res.ok

====
